---- MODULE Spec2Model ----
(***************************************************************************)
(* Model of the anomaly-detection pipeline of ml-anomaly-detection:        *)
(*   src/src/utils.py           featurizer and aggregators                 *)
(*   src/src/lambda_handler.py  scoring, attribution batching, handler     *)
(*                                                                         *)
(* Timestamps are integers counted in units of TimeUnit seconds.  A        *)
(* latitude/longitude pair is a point of a one-dimensional grid and the    *)
(* haversine distance is the distance on that grid.  A pandas mean is an   *)
(* exact fraction <<numerator, denominator>> in lowest terms.              *)
(***************************************************************************)
EXTENDS Integers, Sequences, FiniteSets, TLC

\* ------------------------------------------------------------------ bounds
MaxRows == 4            \* rows returned by QUERY in one run of the featurizer
MaxAggRows == 3         \* featurized records handed to an aggregator
TimeUnit == 43200       \* seconds per timestamp unit (half a day)

\* ------------------------------------------------------- program constants
START == 13             \* h."event" = 13
END == 9                \* h."event" = 9
SecondsPerDay == 86400  \* Timedelta.seconds is the seconds part, days dropped

Facilities == {1, 2}
Times == 1..MaxRows
Events == {START, END}

VARIABLES
    pc,             \* position of the operation under way
    df,             \* the table read by pd.read_sql(QUERY, ...)
    todo,           \* df_per_facility_uuid still to be processed (facility keys)
    processed_dfs,  \* create_event_data_features: processed_dfs
    failed,         \* facilities whose processing raised (the printed ones)
    sortChoice,     \* facility -> the order sort_values(by='timestamp') produced
    out,            \* df_save_and_exit_only
    feat,           \* the featurized records handed to an aggregator
    means,          \* get_means_df: df_with_means
    snapshot,       \* get_prediction_means_df: one row per actor
    response,       \* a scoring endpoint's answer, as get_prediction returns it
    percentiles,    \* get_score_and_percentile: percentiles
    data,           \* get_shap_values: data
    size,           \* get_shap_values: size
    tasks,          \* get_shap_values: the sub-batch calls handed to the executor
    taskResult,     \* sub-batch call -> its get_prediction result, once complete
    completed,      \* the sub-batch calls in the order in which they completed
    shap,           \* get_shap_values: the table returned
    source,         \* the rows QUERY selects from the data source
    run,            \* number of the handler invocation under way
    conn,           \* handler: db_connection ("none" before engine.connect())
    errorAt,        \* the call of handler that raised, "none" while none has
    event_predictions,                \* handler: event_predictions
    person_of_interest_predictions,   \* handler: person_of_interest_predictions
    pending,        \* rows written on db_connection and not yet committed
    event_predicted,                  \* the sink table EVENT_PREDICTED_TABLE
    person_of_interest_predicted,     \* the sink table PERSON_OF_INTEREST_PREDICTED_TABLE
    environ         \* os.environ: the names set in the function's environment

featVars == <<df, todo, processed_dfs, failed, sortChoice, out>>
aggVars == <<feat, means, snapshot>>
pctVars == <<response, percentiles>>
shapVars == <<data, size, tasks, taskResult, completed, shap>>
runVars == <<source, run, conn, errorAt, event_predictions,
             person_of_interest_predictions, pending, event_predicted,
             person_of_interest_predicted, environ>>
vars == <<pc, featVars, aggVars, pctVars, shapVars, runVars>>

NoPending == [event |-> <<>>, person_of_interest |-> <<>>]

\* the variables of an operation that is not under way
IdleRun ==
    /\ source = <<>> /\ run = 0 /\ conn = "none" /\ errorAt = "none"
    /\ event_predictions = <<>> /\ person_of_interest_predictions = <<>>
    /\ pending = NoPending
    /\ event_predicted = <<>> /\ person_of_interest_predicted = <<>>
    /\ environ = {}
IdleFeat ==
    /\ df = <<>> /\ todo = <<>> /\ processed_dfs = <<>> /\ failed = {}
    /\ sortChoice = <<>> /\ out = <<>>
IdleAgg == feat = <<>> /\ means = <<>> /\ snapshot = <<>>
IdlePct == response = <<>> /\ percentiles = <<>>
IdleShap ==
    /\ data = <<>> /\ size = 1 /\ tasks = <<>> /\ taskResult = <<>>
    /\ completed = <<>> /\ shap = <<>>

\* ----------------------------------------------------------------- helpers
Range(s) == {s[i] : i \in DOMAIN s}

Reverse(s) == [i \in 1..Len(s) |-> s[Len(s) + 1 - i]]

RECURSIVE Concat(_)
Concat(ss) == IF ss = <<>> THEN <<>> ELSE Head(ss) \o Concat(Tail(ss))

RECURSIVE SortedSeq(_)
\* the elements of a finite set of integers in increasing order
SortedSeq(S) ==
    IF S = {} THEN <<>>
    ELSE LET m == CHOOSE x \in S : \A y \in S : x <= y
         IN <<m>> \o SortedSeq(S \ {m})

Abs(x) == IF x >= 0 THEN x ELSE -x

\* ---------------------------------------------------------- the data source
\* visit v: one row per facility_uuid (v.uid); its actor, revision, location
Visit(f) == [person_of_interest_id |-> f, revision |-> f, facility_latitude |-> f - 1]

\* custom h: the location recorded with event h.id
EventLatitude(id) == id % 3

\* one row of QUERY's join of custom, visit, usr, project
JoinedRow(id, f, t, e) ==
    [event_id |-> id, facility_uuid |-> f, timestamp |-> t, event |-> e,
     event_latitude |-> EventLatitude(id),
     facility_latitude |-> Visit(f).facility_latitude,
     revision |-> Visit(f).revision,
     person_of_interest_id |-> Visit(f).person_of_interest_id]

\* order by h."timestamp" desc: rows with equal timestamps come in any order
DescendingTimes(n) ==
    {t \in [1..n -> Times] : \A i \in 1..(n - 1) : t[i] >= t[i + 1]}

\* the table pd.read_sql(QUERY, db_connection) returns: row i has event_id i
QueryResult(n, t, fe) == [i \in 1..n |-> JoinedRow(i, fe[i][1], t[i], fe[i][2])]

\* -------------------------------------------------------------- featurizer
\* df.groupby('facility_uuid'): keys ascending, each group's rows in df's order
GroupKeys(d) == SortedSeq({d[i].facility_uuid : i \in DOMAIN d})

GroupRows(d, f) == SelectSeq(d, LAMBDA r : r.facility_uuid = f)

RECURSIVE AscendingOrders(_, _)
\* the orders of the positions S of g in which timestamps never decrease
AscendingOrders(g, S) ==
    IF S = {} THEN {<<>>}
    ELSE UNION {{<<i>> \o rest : rest \in AscendingOrders(g, S \ {i})} :
                i \in {i \in S : \A j \in S : g[i].timestamp <= g[j].timestamp}}

\* df_.sort_values(by='timestamp').index: the default quicksort is not stable,
\* so rows of equal timestamp come out in any order
SortValues(g) == AscendingOrders(g, 1..Len(g))

\* (end_time - start_time).seconds
Seconds(delta) == (delta * TimeUnit) % SecondsPerDay

\* haversine(event, facility, Unit.METERS) on the one-dimensional grid
Haversine(event, facility) == Abs(event - facility)

ZeroFeatures == [elapsed_time |-> 0, distance |-> 0, save_and_exit_count |-> 0]

RECURSIVE WalkRows(_, _, _, _, _)
\* the for loop of _process_facility_df over the sorted index; start_time = <<>>
\* is the initial str(), from which a Timestamp cannot be subtracted
WalkRows(g, ord, start_time, count, lists) ==
    IF ord = <<>> THEN [raised |-> FALSE, lists |-> lists]
    ELSE LET row == g[Head(ord)] IN
        IF row.event = START
        THEN WalkRows(g, Tail(ord), <<row.timestamp>>, count,
                      Append(lists, ZeroFeatures))
        ELSE IF row.event = END
        THEN IF start_time = <<>>
             THEN [raised |-> TRUE, lists |-> lists]
             ELSE WalkRows(g, Tail(ord), start_time, count + 1,
                      Append(lists,
                          [elapsed_time |-> Seconds(row.timestamp - start_time[1]),
                           distance |-> Haversine(row.event_latitude, row.facility_latitude),
                           save_and_exit_count |-> count + 1]))
        ELSE WalkRows(g, Tail(ord), start_time, count, lists)

WithFeatures(row, f) ==
    [event_id |-> row.event_id, facility_uuid |-> row.facility_uuid,
     timestamp |-> row.timestamp, event |-> row.event,
     revision |-> row.revision,
     person_of_interest_id |-> row.person_of_interest_id,
     elapsed_time |-> f.elapsed_time, distance |-> f.distance,
     save_and_exit_count |-> f.save_and_exit_count]

\* (mutant) the lists assigned without the reverse() calls
AssignListsUnreversed(g, lists) == [k \in 1..Len(g) |-> WithFeatures(g[k], lists[k])]

\* the lists are reversed and assigned to the group's rows by position
AssignLists(g, lists) == [k \in 1..Len(g) |-> WithFeatures(g[k], Reverse(lists)[k])]

\* _process_facility_df(df_) under the sort order ord
ProcessFacilityDf(g, ord) ==
    LET w == WalkRows(g, ord, <<>>, 0, <<>>) IN
    IF w.raised \/ Len(w.lists) # Len(g)
    THEN [raised |-> TRUE, rows |-> <<>>]
    ELSE [raised |-> FALSE, rows |-> AssignLists(g, w.lists)]

\* df[df['event'] == 9].reset_index(drop=True)
SaveAndExitOnly(d) == SelectSeq(d, LAMBDA r : r.event = END)

\* (mutant) a concatenation that gives the empty table for no processed group
CreateEventDataFeaturesEmpty(d, choice) ==
    LET keys == GroupKeys(d)
        results == [k \in 1..Len(keys) |->
                      ProcessFacilityDf(GroupRows(d, keys[k]), choice[keys[k]])]
        kept == SelectSeq(results, LAMBDA r : ~r.raised)
    IN  [raised |-> FALSE,
         rows |-> Concat([k \in 1..Len(kept) |-> kept[k].rows])]

\* create_event_data_features(df_per_facility_uuid) as one function; choice
\* gives each facility's sort order
CreateEventDataFeatures(d, choice) ==
    LET keys == GroupKeys(d)
        results == [k \in 1..Len(keys) |->
                      ProcessFacilityDf(GroupRows(d, keys[k]), choice[keys[k]])]
        kept == SelectSeq(results, LAMBDA r : ~r.raised)
    IN  IF kept = <<>>
        THEN [raised |-> TRUE, rows |-> <<>>]
        ELSE [raised |-> FALSE,
              rows |-> Concat([k \in 1..Len(kept) |-> kept[k].rows])]

\* get_save_and_exit_df(df) as one function
GetSaveAndExitDf(d, choice) ==
    LET c == CreateEventDataFeatures(d, choice) IN
    IF c.raised THEN c ELSE [raised |-> FALSE, rows |-> SaveAndExitOnly(c.rows)]

\* --------------------------------------------- get_save_and_exit_df, stepwise
InitFeat ==
    /\ \E n \in 0..MaxRows :
         \E t \in DescendingTimes(n), fe \in [1..n -> Facilities \X Events] :
            df = QueryResult(n, t, fe)
    /\ pc = "groupby"
    /\ todo = <<>>
    /\ processed_dfs = <<>>
    /\ failed = {}
    /\ sortChoice = <<>>
    /\ out = <<>>
    /\ IdleAgg /\ IdlePct /\ IdleShap /\ IdleRun

GroupBy ==
    /\ pc = "groupby"
    /\ todo' = GroupKeys(df)
    /\ pc' = "loop"
    /\ UNCHANGED <<df, processed_dfs, failed, sortChoice, out, aggVars, pctVars, shapVars, runVars>>

\* (mutant) the except branch keeping the group as it was read
ExceptKeepsGroup(g) == <<g>>

\* what the except branch of create_event_data_features appends: nothing
ExceptKeeps(g) == <<>>

\* one iteration of the loop of create_event_data_features
ProcessGroup ==
    /\ pc = "loop"
    /\ todo # <<>>
    /\ LET f == Head(todo)
           g == GroupRows(df, f)
       IN \E ord \in SortValues(g) :
            LET r == ProcessFacilityDf(g, ord) IN
            /\ sortChoice' = (f :> ord) @@ sortChoice
            /\ IF r.raised
               THEN /\ failed' = failed \cup {f}
                    /\ processed_dfs' = processed_dfs \o ExceptKeeps(g)
               ELSE /\ failed' = failed
                    /\ processed_dfs' = Append(processed_dfs, r.rows)
    /\ todo' = Tail(todo)
    /\ UNCHANGED <<pc, df, out, aggVars, pctVars, shapVars, runVars>>

\* pd.concat(processed_dfs) raises ValueError on an empty list; otherwise
\* get_save_and_exit_df keeps the END rows
ConcatAndFilter ==
    /\ pc = "loop"
    /\ todo = <<>>
    /\ IF processed_dfs = <<>>
       THEN /\ pc' = "raised"
            /\ out' = out
       ELSE /\ pc' = "done"
            /\ out' = SaveAndExitOnly(Concat(processed_dfs))
    /\ UNCHANGED <<df, todo, processed_dfs, failed, sortChoice, aggVars, pctVars, shapVars, runVars>>

NextFeat == GroupBy \/ ProcessGroup \/ ConcatAndFilter

SpecFeat == InitFeat /\ [][NextFeat]_vars

\* ------------------------------------------------------ featurizer: claims
Finished == pc \in {"done", "raised"}

\* the records of facility f in the featurizer's output, in output order
OutOf(f) == SelectSeq(out, LAMBDA r : r.facility_uuid = f)

CountOf(g, e) == Cardinality({i \in DOMAIN g : g[i].event = e})

\* a group of N >= 1 START/END pairs: chronologically START, END, START, END,
\* ... with strictly increasing timestamps (g is newest first, as QUERY orders)
WellFormed(g) ==
    LET c == Reverse(g) IN
    /\ Len(c) > 0
    /\ Len(c) % 2 = 0
    /\ \A i \in 1..Len(c) : c[i].event = IF i % 2 = 1 THEN START ELSE END
    /\ \A i \in 1..(Len(c) - 1) : c[i].timestamp < c[i + 1].timestamp

DistinctTimes(g) ==
    \A i, j \in DOMAIN g : i # j => g[i].timestamp # g[j].timestamp

\* an END of g that no START precedes
OrphanEnd(g, i) ==
    /\ g[i].event = END
    /\ \A j \in DOMAIN g : g[j].event = START => g[j].timestamp > g[i].timestamp

\* an END of g that follows a START
FollowsStart(g, i) ==
    /\ g[i].event = END
    /\ \E j \in DOMAIN g : g[j].event = START /\ g[j].timestamp < g[i].timestamp

\* C2 as stated (on groups of distinct timestamps): an END with no earlier START
\* is dropped alone; its group is not failed and every END of the group that
\* follows a START has its record.
C2_OrphanEndDroppedAlone ==
    Finished =>
        \A f \in Facilities :
            LET g == GroupRows(df, f) IN
            (DistinctTimes(g) /\ \E i \in DOMAIN g : OrphanEnd(g, i)) =>
                /\ f \notin failed
                /\ \A i \in DOMAIN g :
                      FollowsStart(g, i) =>
                          \E k \in DOMAIN out : out[k].event_id = g[i].event_id

\* the input without the rows of the groups that raised
WithoutFailed == SelectSeq(df, LAMBDA r : r.facility_uuid \notin failed)

\* C3: when a group raises, none of its rows is in the featurizer's output, and
\* the output is what the featurizer returns on the input without that group.
C3_FailedGroupIsolated ==
    Finished =>
        /\ \A k \in DOMAIN out : out[k].facility_uuid \notin failed
        /\ GetSaveAndExitDf(WithoutFailed, sortChoice).raised = (pc = "raised")
        /\ pc = "done" => out = GetSaveAndExitDf(WithoutFailed, sortChoice).rows

C3_Witness == pc = "done" /\ failed # {} /\ out # <<>>

\* C4 as stated (on groups of distinct timestamps): a START is used by one END
\* only, so an END that follows another END with no START in between yields no
\* record, and a group never yields more records than it has STARTs.
C4_StartConsumed ==
    pc = "done" =>
        \A f \in Facilities \ failed :
            LET g == GroupRows(df, f) IN
            DistinctTimes(g) =>
            /\ Len(OutOf(f)) <= CountOf(g, START)
            /\ \A i \in 1..(Len(g) - 1) :
                  (/\ g[i].event = END /\ g[i + 1].event = END
                   /\ g[i].timestamp > g[i + 1].timestamp)
                  => \A k \in DOMAIN out : out[k].event_id # g[i].event_id

\* -------------------------------------------------------------- aggregators
RECURSIVE GCD(_, _)
GCD(a, b) == IF b = 0 THEN a ELSE GCD(b, a % b)

\* the fraction num/den in lowest terms
Frac(num, den) == LET d == GCD(num, den) IN <<num \div d, den \div d>>

RECURSIVE SumSeq(_)
SumSeq(s) == IF s = <<>> THEN 0 ELSE Head(s) + SumSeq(Tail(s))

\* Series.mean() of a non-empty column
Mean(col) == Frac(SumSeq(col), Len(col))

Column(d, name) == [i \in 1..Len(d) |-> d[i][name]]

\* the window '7d' in seconds
WindowSeconds == 7 * SecondsPerDay

\* df.groupby('person_of_interest_id'): keys ascending
ActorKeys(d) == SortedSeq({d[i].person_of_interest_id : i \in DOMAIN d})

\* (mutant) a group that holds every record, whoever its actor
ActorRowsAll(d, a) == d

\* one group of df.groupby('person_of_interest_id'): rows in df's order
ActorRows(d, a) == SelectSeq(d, LAMBDA r : r.person_of_interest_id = a)

\* df_.sort_values(by='timestamp', ascending=False): quicksort, ties in any order
SortValuesDescending(g) ==
    {[k \in 1..Len(g) |-> g[Reverse(o)[k]]] : o \in AscendingOrders(g, 1..Len(g))}

\* df_.rolling(window='7d', on='timestamp', closed='both') on rows sorted newest
\* first: the window of row i holds the rows at positions j <= i whose timestamp
\* is within 7 days of row i's, both ends included
RollingWindow(gs, i) ==
    SelectSeq([j \in 1..i |-> gs[j]],
              LAMBDA r : (r.timestamp - gs[i].timestamp) * TimeUnit <= WindowSeconds)

WithMeans(row, w) ==
    [event_id |-> row.event_id, facility_uuid |-> row.facility_uuid,
     event |-> row.event,
     person_of_interest_id |-> row.person_of_interest_id,
     timestamp |-> row.timestamp,
     elapsed_time |-> row.elapsed_time, distance |-> row.distance,
     revision |-> row.revision, save_and_exit_count |-> row.save_and_exit_count,
     mean_distance |-> Mean(Column(w, "distance")),
     mean_elapsed_time |-> Mean(Column(w, "elapsed_time")),
     mean_revision |-> Mean(Column(w, "revision")),
     mean_save_and_exit_count |-> Mean(Column(w, "save_and_exit_count"))]

\* the loop body of get_means_df on one sorted group
RollingMeans(gs) == [i \in 1..Len(gs) |-> WithMeans(gs[i], RollingWindow(gs, i))]

RECURSIVE MeansOfGroups(_, _)
\* the tables pd.concat(dfs_grouped_by_person_of_interest) can be, one per
\* outcome of the groups' sorts
MeansOfGroups(d, keys) ==
    IF keys = <<>> THEN {<<>>}
    ELSE {RollingMeans(gs) \o rest :
            gs \in SortValuesDescending(ActorRows(d, Head(keys))),
            rest \in MeansOfGroups(d, Tail(keys))}

\* get_means_df(df_save_and_exit_only): the possible results
GetMeansDf(d) == MeansOfGroups(d, ActorKeys(d))

\* one pd.Series of get_prediction_means_df
ActorMeans(a, g) ==
    [person_of_interest_id |-> a,
     mean_elapsed_time |-> Mean(Column(g, "elapsed_time")),
     mean_distance |-> Mean(Column(g, "distance")),
     mean_revision |-> Mean(Column(g, "revision")),
     mean_save_and_exit_count |-> Mean(Column(g, "save_and_exit_count"))]

\* get_prediction_means_df(df_save_and_exit_only)
GetPredictionMeansDf(d) ==
    LET keys == ActorKeys(d) IN
    [k \in 1..Len(keys) |-> ActorMeans(keys[k], ActorRows(d, keys[k]))]

\* ------------------------------------------------- aggregators: the inputs
Actors == {1, 2}
\* in TimeUnits: 1 and 2 are half a day apart, 15 is 7 days after 1, 16 is more
AggTimes == {1, 2, 15, 16}
\* (elapsed_time, distance, revision, save_and_exit_count) of a featurized record
FeatureVectors == {<<120, 1, 1, 1>>, <<30, 0, 2, 2>>}

FeaturizedRow(id, a, t, v) ==
    [event_id |-> id, facility_uuid |-> 10 * a + v[3], timestamp |-> t,
     event |-> END, revision |-> v[3], person_of_interest_id |-> a,
     elapsed_time |-> v[1], distance |-> v[2], save_and_exit_count |-> v[4]]

InitAgg ==
    /\ pc = "featurized"
    /\ \E n \in 0..MaxAggRows :
         \E r \in [1..n -> Actors \X AggTimes \X FeatureVectors] :
            feat = [i \in 1..n |-> FeaturizedRow(i, r[i][1], r[i][2], r[i][3])]
    /\ means = <<>>
    /\ snapshot = <<>>
    /\ IdleFeat /\ IdlePct /\ IdleShap /\ IdleRun

\* deploy.py save_data: df_with_means = get_means_df(df_save_and_exit)
CallGetMeansDf ==
    /\ pc = "featurized"
    /\ means' \in GetMeansDf(feat)
    /\ pc' = "means"
    /\ UNCHANGED <<featVars, feat, snapshot, pctVars, shapVars, runVars>>

\* lambda_handler.py: df_with_means = get_prediction_means_df(df_save_and_exit_only)
CallGetPredictionMeansDf ==
    /\ pc = "featurized"
    /\ snapshot' = GetPredictionMeansDf(feat)
    /\ pc' = "snapshot"
    /\ UNCHANGED <<featVars, feat, means, pctVars, shapVars, runVars>>

NextAgg == CallGetMeansDf \/ CallGetPredictionMeansDf

SpecAgg == InitAgg /\ [][NextAgg]_vars

\* ----------------------------------------------------- aggregators: claims
\* the rows of table d that belong to actor a and are not later than time t
NotLater(d, a, t) ==
    SelectSeq(d, LAMBDA r : r.person_of_interest_id = a /\ r.timestamp <= t)

MeansOnly(r) ==
    <<r.mean_distance, r.mean_elapsed_time, r.mean_revision, r.mean_save_and_exit_count>>

\* C5 as stated (on actors whose records have distinct timestamps): the means
\* of a record are those get_means_df computes when the actor's records with a
\* later timestamp are absent.
C5_MeansCausal ==
    pc = "means" =>
        \A k \in DOMAIN means :
            LET r == means[k]
                gs == ActorRows(means, r.person_of_interest_id)
                past == NotLater(means, r.person_of_interest_id, r.timestamp)
            IN DistinctTimes(gs) =>
                 \E i \in DOMAIN past :
                    /\ past[i].event_id = r.event_id
                    /\ MeansOnly(RollingMeans(past)[i]) = MeansOnly(r)

\* the sum of column name of table d over the rows of actor a
RECURSIVE SumOver(_, _, _, _)
SumOver(d, a, name, I) ==
    IF I = {} THEN 0
    ELSE LET i == CHOOSE x \in I : TRUE
         IN (IF d[i].person_of_interest_id = a THEN d[i][name] ELSE 0)
            + SumOver(d, a, name, I \ {i})

NumberOf(d, a) == Cardinality({i \in DOMAIN d : d[i].person_of_interest_id = a})

\* m is the fraction total/n
IsFraction(m, total, n) == m[2] > 0 /\ m[1] * n = total * m[2]

\* C10: get_prediction_means_df outputs exactly one row per distinct actor of
\* the featurized records, and each of its four means is the mean over all the
\* records of that actor and of no other.
C10_SnapshotPerActor ==
    pc = "snapshot" =>
        /\ Len(snapshot) = Cardinality({feat[i].person_of_interest_id : i \in DOMAIN feat})
        /\ \A i \in DOMAIN feat :
              \E k \in DOMAIN snapshot :
                 snapshot[k].person_of_interest_id = feat[i].person_of_interest_id
        /\ \A k \in DOMAIN snapshot :
              LET a == snapshot[k].person_of_interest_id
                  n == NumberOf(feat, a)
              IN /\ n > 0
                 /\ IsFraction(snapshot[k].mean_elapsed_time,
                               SumOver(feat, a, "elapsed_time", DOMAIN feat), n)
                 /\ IsFraction(snapshot[k].mean_distance,
                               SumOver(feat, a, "distance", DOMAIN feat), n)
                 /\ IsFraction(snapshot[k].mean_revision,
                               SumOver(feat, a, "revision", DOMAIN feat), n)
                 /\ IsFraction(snapshot[k].mean_save_and_exit_count,
                               SumOver(feat, a, "save_and_exit_count", DOMAIN feat), n)

C10_Witness ==
    /\ pc = "snapshot"
    /\ Len(snapshot) = 2
    /\ \E k \in DOMAIN snapshot :
          /\ NumberOf(feat, snapshot[k].person_of_interest_id) = 2
          /\ snapshot[k].mean_elapsed_time = <<75, 1>>

\* ------------------------------------------------------------- percentiles
MaxRef == 5             \* length of fitted_decision_scores

ScoreValues == 1..5
PredictedLengths == {1, 2}

\* (mutant) the comparisons turned round: the values above the score are counted
PercentileOfScoreAbove(a, score) ==
    LET left == Cardinality({i \in DOMAIN a : a[i] > score})
        right == Cardinality({i \in DOMAIN a : a[i] >= score})
        plus1 == IF left < right THEN 1 ELSE 0
    IN Frac((left + right + plus1) * 50, Len(a))

\* (mutant) kind='mean'
PercentileOfScoreMean(a, score) ==
    LET left == Cardinality({i \in DOMAIN a : a[i] < score})
        right == Cardinality({i \in DOMAIN a : a[i] <= score})
    IN Frac((left + right) * 50, Len(a))

\* scipy.stats.percentileofscore(a, score) with its default kind='rank', for a
\* non-empty a: left and right count the values below and not above the score
PercentileOfScore(a, score) ==
    LET left == Cardinality({i \in DOMAIN a : a[i] < score})
        right == Cardinality({i \in DOMAIN a : a[i] <= score})
        plus1 == IF left < right THEN 1 ELSE 0
    IN Frac((left + right + plus1) * 50, Len(a))

\* get_score_and_percentile(scores): the percentiles (raw_score is returned as is)
GetScoreAndPercentile(scores) ==
    [k \in 1..Len(scores.predicted_decision_scores) |->
        PercentileOfScore(scores.fitted_decision_scores,
                          scores.predicted_decision_scores[k])]

InitPct ==
    /\ pc = "response"
    /\ \E n \in 1..MaxRef, m \in PredictedLengths :
         \E fitted \in [1..n -> ScoreValues], predicted \in [1..m -> ScoreValues] :
            response = [predicted_decision_scores |-> predicted,
                        fitted_decision_scores |-> fitted]
    /\ percentiles = <<>>
    /\ IdleFeat /\ IdleAgg /\ IdleShap /\ IdleRun

CallGetScoreAndPercentile ==
    /\ pc = "response"
    /\ percentiles' = GetScoreAndPercentile(response)
    /\ pc' = "scored"
    /\ UNCHANGED <<featVars, aggVars, response, shapVars, runVars>>

NextPct == CallGetScoreAndPercentile

SpecPct == InitPct /\ [][NextPct]_vars

\* ----------------------------------------------------- percentiles: claims
Below(R, s) == Cardinality({i \in DOMAIN R : R[i] < s})
Equal(R, s) == Cardinality({i \in DOMAIN R : R[i] = s})

\* the fraction m equals num / den
EqualsRatio(m, num, den) == m[2] > 0 /\ m[1] * den = num * m[2]

MaxShapRows == 4        \* rows of the model input handed to get_shap_values
MaxSize == 2            \* the sizes tried for the parameter size (1000 in the code)

\* a value of a model-input column, as the number num/den that to_csv writes
Number(v) == <<v, 1>>

\* model-input rows: four column values each, in the order of the selection
RowValues ==
    {<<Number(0), Number(0), Number(1), Number(1)>>,
     <<Number(120), Number(1), Number(1), Number(1)>>,
     <<Number(30), Number(0), Number(2), Number(2)>>}

Min(a, b) == IF a <= b THEN a ELSE b

\* model.shap_values(input_object) for one row: one attribution per input
\* column, by position.  The explainer is not part of the repository: an
\* attribution is kept as the term "attribution of column c of row x".
ShapValues(x) == [c \in 1..4 |-> [row |-> x, column |-> c, sign |-> 1]]

\* shap_values * -1
Negated(a) == [row |-> a.row, column |-> a.column, sign |-> -a.sign]

\* endpoint_code/custom_estimator.py predict_fn: the negated attributions under
\* the four labels, by position; to_dict() keys each row by its position in the
\* call's input (the dict of columns is written here row by row)
PredictFn(input) ==
    [j \in 1..Len(input) |->
        [index |-> j - 1,
         model_impact_score_elapsed_time |-> Negated(ShapValues(input[j])[1]),
         model_impact_score_distance |-> Negated(ShapValues(input[j])[2]),
         model_impact_score_revision |-> Negated(ShapValues(input[j])[3]),
         model_impact_score_save_and_exit_count |-> Negated(ShapValues(input[j])[4])]]

\* get_prediction(endpoint_name, data) on an explainability endpoint:
\* data.to_csv(header=False, index=False) sends the rows without index or
\* column names; the JSON answer keeps its key order
GetPrediction(rows) == PredictFn(rows)

\* pd.DataFrame.from_dict(result): one row per key, in key order, indexed by key
FromDict(result) == result

\* .reset_index(drop=True): the index is dropped, the row order kept
ResetIndex(d) ==
    [i \in 1..Len(d) |->
        [model_impact_score_elapsed_time |-> d[i].model_impact_score_elapsed_time,
         model_impact_score_distance |-> d[i].model_impact_score_distance,
         model_impact_score_revision |-> d[i].model_impact_score_revision,
         model_impact_score_save_and_exit_count |->
             d[i].model_impact_score_save_and_exit_count]]

\* range(0, len(data), size) and data.iloc[i:i + size]
SubBatches(d, sz) ==
    [b \in 1..((Len(d) + sz - 1) \div sz) |->
        [first |-> (b - 1) * sz + 1,
         rows |-> SubSeq(d, (b - 1) * sz + 1, Min(b * sz, Len(d)))]]

\* (mutant) results taken in the order of completion
CompletionOrder(n, done) == done

\* asyncio.gather(*aws): the results in the order of the awaitables
GatherOrder(n, done) == [k \in 1..n |-> k]

\* get_shap_values(endpoint_name, data, size) when no call raises: pd.concat
\* raises ValueError when there is no sub-batch (no input row)
GetShapValues(d, sz) ==
    LET t == SubBatches(d, sz) IN
    IF t = <<>>
    THEN [raised |-> TRUE, rows |-> <<>>]
    ELSE [raised |-> FALSE,
          rows |-> ResetIndex(Concat([k \in 1..Len(t) |->
                                        FromDict(GetPrediction(t[k].rows))]))]

InitShap ==
    /\ pc = "call"
    /\ \E n \in 0..MaxShapRows : data \in [1..n -> RowValues]
    /\ size \in 1..MaxSize
    /\ tasks = <<>>
    /\ taskResult = <<>>
    /\ completed = <<>>
    /\ shap = <<>>
    /\ IdleFeat /\ IdleAgg /\ IdlePct /\ IdleRun

\* the list comprehension of loop.run_in_executor calls
Dispatch ==
    /\ pc = "call"
    /\ tasks' = SubBatches(data, size)
    /\ pc' = "running"
    /\ UNCHANGED <<featVars, aggVars, pctVars, data, size, taskResult, completed, shap, runVars>>

Pending == DOMAIN tasks \ DOMAIN taskResult

\* an executor thread returns from get_prediction: any pending call may be next
Complete(k) ==
    /\ pc = "running"
    /\ k \in Pending
    /\ taskResult' = (k :> GetPrediction(tasks[k].rows)) @@ taskResult
    /\ completed' = Append(completed, k)
    /\ UNCHANGED <<pc, featVars, aggVars, pctVars, data, size, tasks, shap, runVars>>

\* get_prediction raises in an executor thread: gather raises it to the caller
Fail(k) ==
    /\ pc = "running"
    /\ k \in Pending
    /\ pc' = "raised"
    /\ UNCHANGED <<featVars, aggVars, pctVars, shapVars, runVars>>

\* run_until_complete returns the gathered results; concat and reset_index
Gather ==
    /\ pc = "running"
    /\ Pending = {}
    /\ IF tasks = <<>>
       THEN /\ pc' = "raised"
            /\ shap' = shap
       ELSE /\ pc' = "returned"
            /\ LET order == GatherOrder(Len(tasks), completed)
                   results == [k \in 1..Len(order) |-> taskResult[order[k]]]
               IN shap' = ResetIndex(Concat([k \in 1..Len(results) |->
                                                FromDict(results[k])]))
    /\ UNCHANGED <<featVars, aggVars, pctVars, data, size, tasks, taskResult, completed, runVars>>

NextShap ==
    \/ Dispatch
    \/ \E k \in DOMAIN tasks : Complete(k)
    \/ \E k \in DOMAIN tasks : Fail(k)
    \/ Gather

SpecShap == InitShap /\ [][NextShap]_vars

\* ----------------------------------------------------- attributions: claims
\* the attribution row of model-input row x
AttributionRow(x) ==
    [model_impact_score_elapsed_time |-> [row |-> x, column |-> 1, sign |-> -1],
     model_impact_score_distance |-> [row |-> x, column |-> 2, sign |-> -1],
     model_impact_score_revision |-> [row |-> x, column |-> 3, sign |-> -1],
     model_impact_score_save_and_exit_count |-> [row |-> x, column |-> 4, sign |-> -1]]

\* C7: whatever the order in which the sub-batch calls complete, get_shap_values
\* returns one attribution row per input row, in input order, equal row for row
\* to one unbatched call on the whole input; every input row is in exactly one
\* sub-batch of at most size consecutive rows.
C7_BatchedEqualsUnbatched ==
    /\ pc = "returned" =>
          /\ Len(shap) = Len(data)
          /\ shap = ResetIndex(FromDict(GetPrediction(data)))
          /\ \A i \in DOMAIN data : shap[i] = AttributionRow(data[i])
    /\ pc \in {"running", "returned"} =>
          /\ \A i \in DOMAIN data :
                Cardinality({k \in DOMAIN tasks :
                    /\ tasks[k].first <= i
                    /\ i < tasks[k].first + Len(tasks[k].rows)}) = 1
          /\ \A k \in DOMAIN tasks :
                /\ Len(tasks[k].rows) \in 1..size
                /\ \A j \in DOMAIN tasks[k].rows :
                      tasks[k].rows[j] = data[tasks[k].first + j - 1]

\* several sub-batches that completed last first, over rows that differ
C7_Witness ==
    /\ pc = "returned"
    /\ Len(tasks) >= 2
    /\ completed = Reverse(GatherOrder(Len(tasks), completed))
    /\ \E i \in DOMAIN data : data[i] # data[1]

\* ------------------------------------------------------------- the handler
MaxRunRows == 2         \* rows QUERY selects in the runs of the handler
MaxRuns == 2            \* invocations of the handler

DefaultSize == 1000     \* get_shap_values: size: int = 1000

\* model.decision_scores_ of the deployed model: the fitted distribution
FittedScores == <<1, 2, 3, 4, 5>>

\* get_event_training_data: the model-input columns, in this order
GetEventTrainingData(d) ==
    [i \in 1..Len(d) |->
        <<Number(d[i].elapsed_time), Number(d[i].distance),
          Number(d[i].revision), Number(d[i].save_and_exit_count)>>]

\* get_person_of_interest_data: the model-input columns, in this order
GetPersonOfInterestData(m) ==
    [i \in 1..Len(m) |->
        <<m[i].mean_distance, m[i].mean_elapsed_time,
          m[i].mean_revision, m[i].mean_save_and_exit_count>>]

\* model.decision_function of one row.  The model is not part of the
\* repository: some function of the row's four values, into 1..5.
DecisionFunction(x) == ((x[1][1] + x[2][1] + x[3][1] + x[4][1]) % 5) + 1

\* endpoint_code/custom_inference.py predict_fn, as get_prediction returns it
ScoringPredictFn(input) ==
    [predicted_decision_scores |-> [k \in 1..Len(input) |-> DecisionFunction(input[k])],
     fitted_decision_scores |-> FittedScores]

\* 100 - percentiles
ConfidenceRank(p) == Frac(100 * p[2] - p[1], p[2])

\* get_event_predictions(df_save_and_exit_only) when no endpoint call raises
GetEventPredictions(d) ==
    LET event_model_data == GetEventTrainingData(d)
        event_model_response == ScoringPredictFn(event_model_data)
        pct == GetScoreAndPercentile(event_model_response)
        shap_values == GetShapValues(event_model_data, DefaultSize)
    IN  IF shap_values.raised
        THEN [raised |-> TRUE, rows |-> <<>>]
        ELSE [raised |-> FALSE,
              rows |-> [i \in 1..Len(d) |->
                  d[i]
                  @@ [raw_score |-> event_model_response.predicted_decision_scores[i],
                      score_percentile |-> pct[i]]
                  @@ shap_values.rows[i]]]

\* get_person_of_interest_predictions(df_save_and_exit_only) when no endpoint
\* call raises; now is pd.Timestamp.now()
GetPersonOfInterestPredictions(d, now) ==
    LET df_with_means == GetPredictionMeansDf(d)
        model_data == GetPersonOfInterestData(df_with_means)
        model_response == ScoringPredictFn(model_data)
        pct == GetScoreAndPercentile(model_response)
        shap_values == GetShapValues(model_data, DefaultSize)
    IN  IF shap_values.raised
        THEN [raised |-> TRUE, rows |-> <<>>]
        ELSE [raised |-> FALSE,
              rows |-> [i \in 1..Len(df_with_means) |->
                  df_with_means[i]
                  @@ [raw_score |-> model_response.predicted_decision_scores[i],
                      confidence_rank |-> ConfidenceRank(pct[i]),
                      date_predicted |-> now]
                  @@ shap_values.rows[i]]]

\* the sort orders sort_values can produce for the groups of table d
SortChoices(d) ==
    LET keys == {d[i].facility_uuid : i \in DOMAIN d} IN
    {c \in [keys -> UNION {SortValues(GroupRows(d, f)) : f \in keys}] :
        \A f \in keys : c[f] \in SortValues(GroupRows(d, f))}

\* the rows a run appends, marked with the run that wrote them
Written(rows, r) == [i \in 1..Len(rows) |-> [run |-> r, row |-> rows[i]]]

\* (mutant) if_exists='replace': the table is dropped and made anew for the rows
ToSqlReplace(table, uncommitted, rows) ==
    [table |-> <<>>, uncommitted |-> rows]

\* (mutant) a to_sql that commits its rows at once
ToSqlAutocommit(table, uncommitted, rows) ==
    [table |-> table \o rows, uncommitted |-> uncommitted]

\* DataFrame.to_sql(..., db_connection, if_exists='append') on a connection whose
\* transaction read_sql has begun: the rows join that transaction
ToSql(table, uncommitted, rows) ==
    [table |-> table, uncommitted |-> uncommitted \o rows]

\* (mutant) a handler that goes on to next_pc when a branch raises
BranchFailureContinues(next_pc) == next_pc

\* handler has no try/except: an exception of a branch ends the run
BranchFailure(next_pc) == "error"

\* the timestamps of the rows the runs read: an earlier and a later one, so
\* that rows come in either order of time or share a timestamp
RunTimes == {1, 2}

\* order by h."timestamp" desc, for the rows the runs read
DescendingRunTimes(n) ==
    {t \in [1..n -> RunTimes] : \A i \in 1..(n - 1) : t[i] >= t[i + 1]}

MaxMissing == 1         \* names missing from the environment at once

\* the names the stack sets in the function's environment
ConfigNames ==
    {"RDS_SECRET_NAME", "EVENT_PREDICTED_TABLE", "PERSON_OF_INTEREST_PREDICTED_TABLE",
     "EVENT_PREDICTION_ENDPOINT_NAME", "EVENT_ESTIMATOR_ENDPOINT_NAME",
     "PERSON_OF_INTEREST_PREDICTION_ENDPOINT_NAME",
     "PERSON_OF_INTEREST_ESTIMATOR_ENDPOINT_NAME"}

\* os.getenv(name, default): the value set for name (written <<name>>) or,
\* when name is not set, the default; it never raises
Getenv(name, default) == IF name \in environ THEN <<name>> ELSE default

RDS_SECRET_NAME == Getenv("RDS_SECRET_NAME", "dev-anamoly-detection-rds")
EVENT_PREDICTED_TABLE == Getenv("EVENT_PREDICTED_TABLE", "event_predicted")
PERSON_OF_INTEREST_PREDICTED_TABLE ==
    Getenv("PERSON_OF_INTEREST_PREDICTED_TABLE", "person_of_interest_predicted")
EVENT_PREDICTION_ENDPOINT_NAME ==
    Getenv("EVENT_PREDICTION_ENDPOINT_NAME", "anamoly-detection-event-prediction-endpoint")
EVENT_ESTIMATOR_ENDPOINT_NAME ==
    Getenv("EVENT_ESTIMATOR_ENDPOINT_NAME", "anamoly-detection-event-estimator-endpoint")
PERSON_OF_INTEREST_PREDICTION_ENDPOINT_NAME ==
    Getenv("PERSON_OF_INTEREST_PREDICTION_ENDPOINT_NAME",
           "anamoly-detection-person_of_interest-prediction-endpoint")
PERSON_OF_INTEREST_ESTIMATOR_ENDPOINT_NAME ==
    Getenv("PERSON_OF_INTEREST_ESTIMATOR_ENDPOINT_NAME",
           "anamoly-detection-person_of_interest-estimator-endpoint")

Init ==
    /\ pc = "idle"
    /\ \E missing \in SUBSET ConfigNames :
         /\ Cardinality(missing) <= MaxMissing
         /\ environ = ConfigNames \ missing
    /\ \E n \in 0..MaxRunRows :
         \E t \in DescendingRunTimes(n), fe \in [1..n -> Facilities \X Events] :
            source = QueryResult(n, t, fe)
    /\ run = 0
    /\ conn = "none"
    /\ errorAt = "none"
    /\ event_predictions = <<>>
    /\ person_of_interest_predictions = <<>>
    /\ pending = NoPending
    /\ event_predicted = <<>>
    /\ person_of_interest_predicted = <<>>
    /\ IdleFeat /\ IdleAgg /\ IdlePct /\ IdleShap

idleVars == <<todo, processed_dfs, failed, feat, means, pctVars, shapVars, environ>>

\* the schedule invokes handler(event, context): its locals are fresh
Invoke ==
    /\ pc \in {"idle", "done", "error"}
    /\ run < MaxRuns
    /\ run' = run + 1
    /\ pc' = "start"
    /\ conn' = "none"
    /\ errorAt' = "none"
    /\ df' = <<>> /\ out' = <<>> /\ snapshot' = <<>>
    /\ event_predictions' = <<>>
    /\ person_of_interest_predictions' = <<>>
    /\ pending' = NoPending
    /\ UNCHANGED <<idleVars, sortChoice, source, event_predicted, person_of_interest_predicted>>

\* credentials = get_credentials(RDS_SECRET_NAME); get_secret may raise
GetCredentials ==
    /\ pc = "start"
    /\ \E ok \in BOOLEAN :
         IF ok THEN pc' = "credentials" /\ errorAt' = errorAt
         ELSE pc' = "error" /\ errorAt' = "get_credentials"
    /\ UNCHANGED <<idleVars, sortChoice, df, out, snapshot, source, run, conn, event_predictions,
                   person_of_interest_predictions, pending, event_predicted,
                   person_of_interest_predicted>>

\* db_connection = get_db_connection(credentials); engine.connect() may raise
GetDbConnection ==
    /\ pc = "credentials"
    /\ \E ok \in BOOLEAN :
         IF ok THEN pc' = "connected" /\ conn' = "open" /\ errorAt' = errorAt
         ELSE pc' = "error" /\ conn' = conn /\ errorAt' = "get_db_connection"
    /\ UNCHANGED <<idleVars, sortChoice, df, out, snapshot, source, run, event_predictions,
                   person_of_interest_predictions, pending, event_predicted,
                   person_of_interest_predicted>>

\* df = pd.read_sql(QUERY, db_connection); the query may raise
ReadSql ==
    /\ pc = "connected"
    /\ \E ok \in BOOLEAN :
         IF ok THEN pc' = "read" /\ df' = source /\ errorAt' = errorAt
         ELSE pc' = "error" /\ df' = df /\ errorAt' = "read_sql"
    /\ UNCHANGED <<idleVars, sortChoice, out, snapshot, source, run, conn, event_predictions,
                   person_of_interest_predictions, pending, event_predicted,
                   person_of_interest_predicted>>

\* df_save_and_exit_only = get_save_and_exit_df(df).  sort_values is a function
\* of the table: which order it gives rows of equal timestamp is not known, but
\* it is the same order again in a later run over the same rows
Featurize ==
    /\ pc = "read"
    /\ \E choice \in SortChoices(df) :
         LET r == GetSaveAndExitDf(df, choice) IN
         /\ sortChoice \in SortChoices(df) => choice = sortChoice
         /\ sortChoice' = choice
         /\ IF r.raised
            THEN pc' = "error" /\ out' = out /\ errorAt' = "get_save_and_exit_df"
            ELSE pc' = "featurized" /\ out' = r.rows /\ errorAt' = errorAt
    /\ UNCHANGED <<idleVars, df, snapshot, source, run, conn, event_predictions,
                   person_of_interest_predictions, pending, event_predicted,
                   person_of_interest_predicted>>

\* event_predictions = get_event_predictions(df_save_and_exit_only); either
\* endpoint call may raise
EventBranch ==
    /\ pc = "featurized"
    /\ \E ok \in BOOLEAN :
         LET r == GetEventPredictions(out) IN
         IF ok /\ ~r.raised
         THEN /\ pc' = "event_predicted"
              /\ event_predictions' = r.rows
              /\ errorAt' = errorAt
         ELSE /\ pc' = BranchFailure("event_predicted")
              /\ event_predictions' = event_predictions
              /\ errorAt' = "get_event_predictions"
    /\ UNCHANGED <<idleVars, sortChoice, df, out, snapshot, source, run, conn,
                   person_of_interest_predictions, pending, event_predicted,
                   person_of_interest_predicted>>

\* person_of_interest_predictions = get_person_of_interest_predictions(...)
PersonOfInterestBranch ==
    /\ pc = "event_predicted"
    /\ \E ok \in BOOLEAN :
         LET r == GetPersonOfInterestPredictions(out, run) IN
         IF ok /\ ~r.raised
         THEN /\ pc' = "person_of_interest_predicted"
              /\ snapshot' = GetPredictionMeansDf(out)
              /\ person_of_interest_predictions' = r.rows
              /\ errorAt' = errorAt
         ELSE /\ pc' = BranchFailure("person_of_interest_predicted")
              /\ snapshot' = snapshot
              /\ person_of_interest_predictions' = person_of_interest_predictions
              /\ errorAt' = "get_person_of_interest_predictions"
    /\ UNCHANGED <<idleVars, sortChoice, df, out, source, run, conn, event_predictions,
                   pending, event_predicted, person_of_interest_predicted>>

\* event_predictions.to_sql(EVENT_PREDICTED_TABLE, db_connection, ...)
WriteEventPredicted ==
    /\ pc = "person_of_interest_predicted"
    /\ \E ok \in BOOLEAN :
         LET w == ToSql(event_predicted, pending.event,
                        Written(event_predictions, run)) IN
         IF ok
         THEN /\ pc' = "event_written"
              /\ event_predicted' = w.table
              /\ pending' = [pending EXCEPT !.event = w.uncommitted]
              /\ errorAt' = errorAt
         ELSE /\ pc' = "error"
              /\ event_predicted' = event_predicted
              /\ pending' = pending
              /\ errorAt' = "to_sql event_predicted"
    /\ UNCHANGED <<idleVars, sortChoice, df, out, snapshot, source, run, conn, event_predictions,
                   person_of_interest_predictions, person_of_interest_predicted>>

\* person_of_interest_predictions.to_sql(PERSON_OF_INTEREST_PREDICTED_TABLE, ...)
WritePersonOfInterestPredicted ==
    /\ pc = "event_written"
    /\ \E ok \in BOOLEAN :
         LET w == ToSql(person_of_interest_predicted, pending.person_of_interest,
                        Written(person_of_interest_predictions, run)) IN
         IF ok
         THEN /\ pc' = "person_of_interest_written"
              /\ person_of_interest_predicted' = w.table
              /\ pending' = [pending EXCEPT !.person_of_interest = w.uncommitted]
              /\ errorAt' = errorAt
         ELSE /\ pc' = "error"
              /\ person_of_interest_predicted' = person_of_interest_predicted
              /\ pending' = pending
              /\ errorAt' = "to_sql person_of_interest_predicted"
    /\ UNCHANGED <<idleVars, sortChoice, df, out, snapshot, source, run, conn, event_predictions,
                   person_of_interest_predictions, event_predicted>>

\* db_connection.commit(): the transaction's rows reach both tables, or none
Commit ==
    /\ pc = "person_of_interest_written"
    /\ \E ok \in BOOLEAN :
         IF ok
         THEN /\ pc' = "done"
              /\ event_predicted' = event_predicted \o pending.event
              /\ person_of_interest_predicted' =
                     person_of_interest_predicted \o pending.person_of_interest
              /\ pending' = NoPending
              /\ errorAt' = errorAt
         ELSE /\ pc' = "error"
              /\ event_predicted' = event_predicted
              /\ person_of_interest_predicted' = person_of_interest_predicted
              /\ pending' = pending
              /\ errorAt' = "commit"
    /\ UNCHANGED <<idleVars, sortChoice, df, out, snapshot, source, run, conn, event_predictions,
                   person_of_interest_predictions>>

Next ==
    \/ Invoke
    \/ GetCredentials
    \/ GetDbConnection
    \/ ReadSql
    \/ Featurize
    \/ EventBranch
    \/ PersonOfInterestBranch
    \/ WriteEventPredicted
    \/ WritePersonOfInterestPredicted
    \/ Commit

Spec == Init /\ [][Next]_vars

\* ------------------------------------------------------ the handler: claims
\* the rows of a sink table that run r wrote
RowsOfRun(table, r) ==
    LET mine == SelectSeq(table, LAMBDA w : w.run = r)
    IN [i \in 1..Len(mine) |-> mine[i].row]

BranchCalls == {"get_event_predictions", "get_person_of_interest_predictions"}

\* C8 as stated: when the event-level branch raises, the actor-level branch
\* still runs and its scored table reaches the sink; and the other way round.
C8_BranchesIndependent ==
    (pc = "error" /\ out # <<>>) =>
        /\ errorAt = "get_event_predictions" =>
              /\ person_of_interest_predictions # <<>>
              /\ RowsOfRun(person_of_interest_predicted, run) # <<>>
        /\ errorAt = "get_person_of_interest_predictions" =>
              RowsOfRun(event_predicted, run) # <<>>

\* C8 amended: a failure inside either branch ends the run: when the event-level
\* branch raises the actor-level branch does not run, and when either branch
\* raises no to_sql is reached and no row of the run reaches either sink table.
C8_BranchFailureEndsRun ==
    errorAt \in BranchCalls =>
        /\ pc = "error"
        /\ errorAt = "get_event_predictions" => person_of_interest_predictions = <<>>
        /\ pending = NoPending
        /\ RowsOfRun(event_predicted, run) = <<>>
        /\ RowsOfRun(person_of_interest_predicted, run) = <<>>

C8_Witness ==
    /\ pc = "error"
    /\ errorAt = "get_event_predictions"
    /\ out # <<>>

\* C9: a run never leaves exactly one of the two tables appended: when it ends
\* without error both scored tables are in the sink, and when it ends with an
\* error (at any step) no row of the run is in either table.
C9_BothTablesOrNone ==
    LET ev == RowsOfRun(event_predicted, run)
        po == RowsOfRun(person_of_interest_predicted, run)
    IN /\ (ev = <<>>) = (po = <<>>)
       /\ pc = "done" =>
             /\ ev = event_predictions /\ ev # <<>>
             /\ po = person_of_interest_predictions /\ po # <<>>
       /\ pc = "error" => ev = <<>> /\ po = <<>>

\* the first table was written and the second write raised
C9_Witness ==
    /\ pc = "error"
    /\ errorAt = "to_sql person_of_interest_predicted"
    /\ pending.event # <<>>

\* ------------------------------------------------- later claims: featurizer
\* C11 as stated: the elapsed_time of every record of a well-formed group is the
\* whole number of seconds between its END and the START paired with it, also
\* when that gap is one day or more.
C11_ElapsedWholeSeconds ==
    pc = "done" =>
        \A f \in Facilities :
            LET g == GroupRows(df, f) IN
            WellFormed(g) =>
                \A k \in 1..Len(OutOf(f)) :
                    /\ OutOf(f)[k].elapsed_time >= 0
                    /\ OutOf(f)[k].elapsed_time =
                          (g[2 * k - 1].timestamp - g[2 * k].timestamp) * TimeUnit

\* --------------------------------------------------- later claims: handler
\* C12 as stated: the connection is acquired once, used for the read and both
\* writes, and when a run ends without error it has been committed and closed.
C12_ConnectionCommittedThenClosed ==
    pc = "done" =>
        /\ pending = NoPending
        /\ conn = "closed"

\* C13 as stated: with a required name missing from the environment, the run
\* fails at startup, before the secret store or the data source is accessed.
C13_MissingConfigFailsFast ==
    (ConfigNames \ environ # {} /\ run >= 1) =>
        /\ pc \in {"start", "error"}
        /\ pc = "error" => errorAt = "configuration"
        /\ conn = "none"
        /\ df = <<>>

\* ------------------------------------------------ later claims: percentiles
\* the fraction p is at most the fraction q
AtMost(p, q) == p[1] * q[2] <= q[1] * p[2]

\* C14: for one reference distribution, a lower raw score never has the higher
\* percentile, also when the scores tie with reference values.
C14_PercentileMonotonic ==
    pc = "scored" =>
        \A i, j \in DOMAIN percentiles :
            response.predicted_decision_scores[i] < response.predicted_decision_scores[j]
                => AtMost(percentiles[i], percentiles[j])

\* two different raw scores, the lower one tied with a reference value and the
\* higher one not
C14_Witness ==
    /\ pc = "scored"
    /\ Len(percentiles) = 2
    /\ response.predicted_decision_scores[1] < response.predicted_decision_scores[2]
    /\ Equal(response.fitted_decision_scores, response.predicted_decision_scores[1]) > 0
    /\ Equal(response.fitted_decision_scores, response.predicted_decision_scores[2]) = 0
    /\ percentiles[1] # percentiles[2]

\* ------------------------------------------------------ later claims: sink
IsPrefix(a, b) == Len(a) <= Len(b) /\ SubSeq(b, 1, Len(a)) = a

\* the runs that have rows in a sink table
RunsIn(table) == {table[i].run : i \in DOMAIN table}

\* the number of rows of a sink table whose column has the value v
Copies(table, column, v) ==
    Cardinality({i \in DOMAIN table : table[i].row[column] = v})

\* every scored event and every scored actor is in its table once for each run
\* that ended without error
OncePerRun ==
    /\ RunsIn(event_predicted) = RunsIn(person_of_interest_predicted)
    /\ \A i \in DOMAIN event_predicted :
          Copies(event_predicted, "event_id", event_predicted[i].row.event_id)
              = Cardinality(RunsIn(event_predicted))
    /\ \A i \in DOMAIN person_of_interest_predicted :
          Copies(person_of_interest_predicted, "person_of_interest_id",
                 person_of_interest_predicted[i].row.person_of_interest_id)
              = Cardinality(RunsIn(person_of_interest_predicted))

\* C15: no step removes or changes a row already in a sink table; a run that
\* ends without error appends all of its scored rows to both tables, so after
\* k such runs over the same source rows every scored event and every scored
\* actor is in its table k times (twice after two runs).
C15_AppendOnly ==
    [][/\ IsPrefix(event_predicted, event_predicted')
       /\ IsPrefix(person_of_interest_predicted, person_of_interest_predicted')
       /\ pc' = "done" =>
             /\ event_predicted' =
                   event_predicted \o Written(event_predictions, run)
             /\ person_of_interest_predicted' =
                   person_of_interest_predicted
                       \o Written(person_of_interest_predictions, run)
             /\ OncePerRun']_vars

\* the second run over the same source rows has ended without error too
C15_Witness ==
    /\ pc = "done"
    /\ run = 2
    /\ RunsIn(event_predicted) = {1, 2}
    /\ \E i \in DOMAIN event_predicted :
          Copies(event_predicted, "event_id", event_predicted[i].row.event_id) = 2

\* ------------------------------------------- later claims: own END's features
\* the elapsed times END row r of group g may have by its own timestamp: from
\* a START not later than r with no START strictly between the two
OwnElapsedTimes(g, r) ==
    {Seconds(r.timestamp - g[j].timestamp) :
        j \in {j \in DOMAIN g :
                 /\ g[j].event = START
                 /\ g[j].timestamp <= r.timestamp
                 /\ \A i \in DOMAIN g :
                       g[i].event = START =>
                           ~(g[j].timestamp < g[i].timestamp
                             /\ g[i].timestamp < r.timestamp)}}

\* record r carries the features computed from its own END event
OwnFeatures(r) ==
    /\ r.distance = Haversine(EventLatitude(r.event_id),
                              Visit(r.facility_uuid).facility_latitude)
    /\ r.elapsed_time \in OwnElapsedTimes(GroupRows(df, r.facility_uuid), r)
    /\ r.save_and_exit_count >= 1

\* C16 as stated: every output record carries the features of its own END, also
\* when rows of its group share a timestamp; none carries a START's zeros or
\* another END's features.
C16_FeaturesOfOwnEnd ==
    pc = "done" => \A k \in DOMAIN out : OwnFeatures(out[k])

\* ------------------------------------------- later claims: attribution labels
\* get_event_training_data: the columns selected, in this order
EventColumns == <<"elapsed_time", "distance", "revision", "save_and_exit_count">>

\* get_person_of_interest_data: the columns selected, in this order
PersonOfInterestColumns ==
    <<"mean_distance", "mean_elapsed_time", "mean_revision", "mean_save_and_exit_count">>

\* the features the explainability endpoint labels its columns for
LabelledFeatures == {"elapsed_time", "distance", "revision", "save_and_exit_count"}

\* the column model_impact_score_<feature> of scored row r
ModelImpactScore(r, feature) ==
    CASE feature = "elapsed_time" -> r.model_impact_score_elapsed_time
      [] feature = "distance" -> r.model_impact_score_distance
      [] feature = "revision" -> r.model_impact_score_revision
      [] feature = "save_and_exit_count" -> r.model_impact_score_save_and_exit_count

\* the actor-level column of a feature
MeanColumn(feature) ==
    CASE feature = "elapsed_time" -> "mean_elapsed_time"
      [] feature = "distance" -> "mean_distance"
      [] feature = "revision" -> "mean_revision"
      [] feature = "save_and_exit_count" -> "mean_save_and_exit_count"

PositionOf(columns, name) == CHOOSE c \in DOMAIN columns : columns[c] = name

\* C17 as stated: in both scored tables, the column model_impact_score_<feature>
\* of a row holds the attribution of the model-input column of that feature (of
\* the same row).
C17_AttributionLabelsMatch ==
    /\ \A i \in DOMAIN event_predictions : \A f \in LabelledFeatures :
          /\ ModelImpactScore(event_predictions[i], f).row
                 = GetEventTrainingData(out)[i]
          /\ ModelImpactScore(event_predictions[i], f).column
                 = PositionOf(EventColumns, f)
    /\ \A i \in DOMAIN person_of_interest_predictions : \A f \in LabelledFeatures :
          /\ ModelImpactScore(person_of_interest_predictions[i], f).row
                 = GetPersonOfInterestData(GetPredictionMeansDf(out))[i]
          /\ ModelImpactScore(person_of_interest_predictions[i], f).column
                 = PositionOf(PersonOfInterestColumns, MeanColumn(f))

\* ------------------------------------------- later claims: no processed group
\* get_save_and_exit_df has been called in the run under way
AfterFeaturize ==
    \/ pc \in {"featurized", "event_predicted", "person_of_interest_predicted",
               "event_written", "person_of_interest_written", "done"}
    \/ pc = "error" /\ errorAt \notin {"get_credentials", "get_db_connection", "read_sql"}

\* every group of the rows read raised in _process_facility_df, or no row was read
NoGroupProcessed ==
    \A f \in {df[i].facility_uuid : i \in DOMAIN df} :
        ProcessFacilityDf(GroupRows(df, f), sortChoice[f]).raised

\* C18: when every group fails, or no row was read, the featurizer raises (the
\* concatenation of no group) and the run ends there: no endpoint has been
\* called and nothing is written to the sink.
C18_NoGroupRaises ==
    (AfterFeaturize /\ NoGroupProcessed) =>
        /\ pc = "error"
        /\ errorAt = "get_save_and_exit_df"
        /\ out = <<>>
        /\ event_predictions = <<>>
        /\ person_of_interest_predictions = <<>>
        /\ pending = NoPending
        /\ RowsOfRun(event_predicted, run) = <<>>
        /\ RowsOfRun(person_of_interest_predicted, run) = <<>>

\* rows were read and every group of them failed
C18_Witness ==
    /\ pc = "error"
    /\ errorAt = "get_save_and_exit_df"
    /\ df # <<>>
    /\ NoGroupProcessed

====
